---- MODULE Spec2Model ----
(***************************************************************************)
(* A model of translator_api.py, the English<->French dictionary lookup    *)
(* service: index construction, SEE cross-reference resolution, the        *)
(* direct / lemma / reverse search of one request, and the clean-and-dedup *)
(* of its results.                                                         *)
(*                                                                         *)
(* A Python str is modelled as a sequence of one-character strings, so     *)
(* that lower(), strip(), startswith(), split() and the regular            *)
(* expressions are computed character by character.                        *)
(***************************************************************************)
EXTENDS Naturals, Sequences, FiniteSets

VARIABLES
    EN_FR_LINES,    \* raw lines of the EN->FR file            (line 28)
    FR_EN_LINES,    \* raw lines of the FR->EN file            (line 29)
    en_fr_index,    \* build_index(EN_FR_LINES)                (line 42)
    fr_en_index,    \* build_index(FR_EN_LINES)                (line 43)
    word,           \* request.word
    cleaned_word,   \* clean_input(request.word)               (line 134)
    input_lang,     \* the language guess                      (line 137)
    results,        \* the collected result strings            (line 139)
    reverse_results,\* the reverse matches (line 172), None while unbound
    translations,   \* the "translations" field of the response
    raised,         \* which lemmatizer raised, "none" if none did
    pc,             \* position of the request handler
    fl,             \* the running find_lines_in_index call chain
    fl_steps,       \* history: the steps that call chain has taken
    norm_in,        \* input of the clean-and-dedup loop
    norm_out,       \* its output
    norm_twice      \* the loop applied to its own output

vars == <<EN_FR_LINES, FR_EN_LINES, en_fr_index, fr_en_index, word,
          cleaned_word, input_lang, results, reverse_results, translations,
          raised, pc, fl, fl_steps, norm_in, norm_out, norm_twice>>

-----------------------------------------------------------------------------
(* Characters and the str methods the program uses.                        *)

Whitespace == {" ", "\t"}

IsSpace(c) == c \in Whitespace

UpperLetters == <<"A","B","C","D","E","F","G","H","I","J","K","L","M",
                  "N","O","P","Q","R","S","T","U","V","W","X","Y","Z">>

LowerLetters == <<"a","b","c","d","e","f","g","h","i","j","k","l","m",
                  "n","o","p","q","r","s","t","u","v","w","x","y","z">>

\* [a-zA-Z]
IsLetter(c) == \E i \in 1..26 : c = UpperLetters[i] \/ c = LowerLetters[i]

LowerChar(c) ==
    IF \E i \in 1..26 : c = UpperLetters[i]
    THEN LowerLetters[CHOOSE i \in 1..26 : c = UpperLetters[i]]
    ELSE c

\* str.lower()
Lower(s) == [i \in 1..Len(s) |-> LowerChar(s[i])]

SetMin(S) == CHOOSE x \in S : \A y \in S : x <= y

SetMax(S) == CHOOSE x \in S : \A y \in S : y <= x

\* str.strip()
Strip(s) ==
    LET keep == {i \in 1..Len(s) : ~IsSpace(s[i])}
    IN  IF keep = {} THEN <<>> ELSE SubSeq(s, SetMin(keep), SetMax(keep))

\* str.startswith(p)
StartsWith(s, p) == Len(p) <= Len(s) /\ SubSeq(s, 1, Len(p)) = p

\* The least index >= from at which p occurs in s, 0 when there is none
\* (str.find, 1-based).
Find(s, p, from) ==
    LET at == {i \in from..(Len(s) + 1 - Len(p)) : SubSeq(s, i, i + Len(p) - 1) = p}
    IN  IF at = {} THEN 0 ELSE SetMin(at)

\* p in s
Contains(s, p) == Find(s, p, 1) # 0

\* s[n:]
Drop(s, n) == SubSeq(s, n + 1, Len(s))

ColonColon == <<":", ":">>

\* line.split("::", 1)[0] and [1], for a line that contains "::"
BeforeColon(line) == SubSeq(line, 1, Find(line, ColonColon, 1) - 1)

AfterColon(line) == Drop(line, Find(line, ColonColon, 1) + 1)

\* Python's None, a value no str equals.
None == <<"None">>

\* The truth value of an Optional[str]: None and "" are false.
Truthy(x) == x # None /\ x # <<>>

-----------------------------------------------------------------------------
(* clean_input                                                             *)

FRENCH_ARTICLES == << <<"l","e"," ">>, <<"l","a"," ">>, <<"l","e","s"," ">>, <<"l","'">> >>

TO_PREFIX == <<"t","o"," ">>

\* One turn of "for article in FRENCH_ARTICLES": there is no break, so every
\* article is tested in turn against what the earlier turns left.
RECURSIVE StripArticles(_, _)
StripArticles(w, k) ==
    IF k > Len(FRENCH_ARTICLES) THEN w
    ELSE IF StartsWith(w, FRENCH_ARTICLES[k])
         THEN StripArticles(Drop(w, Len(FRENCH_ARTICLES[k])), k + 1)
         ELSE StripArticles(w, k + 1)

clean_input(w) ==
    LET w0 == Lower(Strip(w))
        w1 == IF StartsWith(w0, TO_PREFIX) THEN Drop(w0, 3) ELSE w0
    IN  StripArticles(w1, 1)

-----------------------------------------------------------------------------
(* build_index                                                             *)

\* re.match(r"^(.*?)\s*\{", line): the lazy group ends where the blanks before
\* the first "{" begin, so a line matches exactly when it holds a "{".
HasHeadword(line) == Contains(line, <<"{">>)

\* m.group(1).strip().lower()
IndexKey(line) == Lower(Strip(SubSeq(line, 1, Find(line, <<"{">>, 1) - 1)))

RECURSIVE Bucket(_, _)
Bucket(lines, key) ==
    IF lines = <<>> THEN <<>>
    ELSE IF HasHeadword(Head(lines)) /\ IndexKey(Head(lines)) = key
         THEN <<Head(lines)>> \o Bucket(Tail(lines), key)
         ELSE Bucket(Tail(lines), key)

\* The dict: its domain is the set of keys, a bucket keeps file order.
build_index(lines) ==
    [key \in {IndexKey(lines[i]) : i \in {j \in 1..Len(lines) : HasHeadword(lines[j])}}
        |-> Bucket(lines, key)]

-----------------------------------------------------------------------------
(* Utility functions                                                       *)

SEE_MARK == <<"s","e","e",":">>

\* re.search(r"SEE:\s*(.*?)\s*::", line, re.IGNORECASE), then group(1).strip():
\* the text between the first "SEE:" and the first "::" after it.
extract_see_reference(line) ==
    LET s == Find(Lower(line), SEE_MARK, 1)
        w == IF s = 0 THEN 0 ELSE Find(line, ColonColon, s + 4)
    IN  IF w = 0 THEN None ELSE Strip(SubSeq(line, s + 4, w - 1))

\* re.sub(r'/[^/]+/', '', text): scanning from the left, a "/" whose next "/"
\* lies at least two places on opens an annotation, removed with both slashes.
RECURSIVE remove_phonetics(_)
remove_phonetics(text) ==
    IF text = <<>> THEN <<>>
    ELSE LET close == Find(text, <<"/">>, 2)
         IN  IF Head(text) = "/" /\ close > 2
             THEN remove_phonetics(Drop(text, close))
             ELSE <<Head(text)>> \o remove_phonetics(Tail(text))

\* The number of leading whitespace characters of s.
LeadingBlanks(s) ==
    LET solid == {i \in 1..Len(s) : ~IsSpace(s[i])}
    IN  IF solid = {} THEN Len(s) ELSE SetMin(solid) - 1

\* re.sub(r'\}\s+', '} ', text)
RECURSIVE remove_extra_spaces(_)
remove_extra_spaces(text) ==
    IF text = <<>> THEN <<>>
    ELSE IF Head(text) = "}" /\ LeadingBlanks(Tail(text)) > 0
         THEN <<"}", " ">>
              \o remove_extra_spaces(Drop(Tail(text), LeadingBlanks(Tail(text))))
         ELSE <<Head(text)>> \o remove_extra_spaces(Tail(text))

translation_has_letters(line) ==
    IF Contains(line, ColonColon)
    THEN \E i \in 1..Len(AfterColon(line)) : IsLetter(AfterColon(line)[i])
    ELSE TRUE

RECURSIVE find_lines_after_colon_from_lines(_, _)
find_lines_after_colon_from_lines(lines, search_phrase) ==
    IF lines = <<>> THEN <<>>
    ELSE LET line == Head(lines)
             rest == find_lines_after_colon_from_lines(Tail(lines), search_phrase)
         IN  IF Contains(line, ColonColon)
                /\ Contains(Lower(AfterColon(line)), Lower(search_phrase))
             THEN <<line>> \o rest
             ELSE rest

\* res_clean of line 195
CleanResult(res) == Strip(remove_phonetics(remove_extra_spaces(res)))

\* The loop of lines 192-198; seen is kept as the set of out's elements.
RECURSIVE DedupClean(_, _)
DedupClean(rs, out) ==
    IF rs = <<>> THEN out
    ELSE LET res_clean == CleanResult(Head(rs))
         IN  IF \E i \in 1..Len(out) : out[i] = res_clean
             THEN DedupClean(Tail(rs), out)
             ELSE DedupClean(Tail(rs), Append(out, res_clean))

\* The results cleaned, the seen set left out.
Normalize_NoDedup(rs) == [i \in 1..Len(rs) |-> CleanResult(rs[i])]

Normalize(rs) == DedupClean(rs, <<>>)

-----------------------------------------------------------------------------
(* find_lines_in_index, as a machine that runs one call chain step by step. *)
(* fl.stack holds one frame per active invocation, the innermost last:      *)
(* key (line 96), the position i of the for loop in index[key] (line 101)   *)
(* and results (line 95). fl.visited is the set shared by the whole chain.  *)
(* fl.mode is the position of the innermost invocation: "call" before line  *)
(* 93, "check" at line 97, "loop" at line 101, "return_cycle" after the     *)
(* return of line 98 and "return_end" after the return of line 111, with    *)
(* the returned list in fl.ret.                                             *)

Returns == {"return_cycle", "return_end"}

\* find_lines_in_index(index, search_word) with visited=None
StartCall(search_word) ==
    [mode |-> "call", arg |-> search_word, stack |-> <<>>, visited |-> {},
     ret |-> <<>>]

Top(m) == m.stack[Len(m.stack)]

Pop(m) == SubSeq(m.stack, 1, Len(m.stack) - 1)

SetTop(m, frame) == [m.stack EXCEPT ![Len(m.stack)] = frame]

\* index[key] if key in index, no line otherwise (line 100)
BucketOf(index, key) == IF key \in DOMAIN index THEN index[key] ELSE <<>>

\* The line the innermost invocation's loop is at.
CurrentLine(index, m) == BucketOf(index, Top(m).key)[Top(m).i]

\* The outermost invocation has returned.
Returned(m) == m.mode \in Returns /\ m.stack = <<>>

\* lines 93-96: a new invocation, results = [], key = search_word.lower()
EnterCall(m) ==
    [m EXCEPT !.mode = "check",
              !.stack = Append(m.stack, [key |-> Lower(m.arg), i |-> 1, results |-> <<>>])]

\* The cycle check left out.
InVisited_Never(m) == FALSE

\* lines 97-98
InVisited(m) == Top(m).key \in m.visited

ReturnOnCycle(m) ==
    [m EXCEPT !.mode = "return_cycle", !.stack = Pop(m), !.ret = <<>>]

\* line 99
AddVisited(m) ==
    [m EXCEPT !.mode = "loop", !.visited = m.visited \cup {Top(m).key}]

\* lines 100-101: the loop has lines left
HasLine(index, m) == Top(m).i <= Len(BucketOf(index, Top(m).key))

\* lines 102-103
IsRedirect(line) == Truthy(extract_see_reference(line))

\* line 104: the recursive call
Recurse(index, m) ==
    [m EXCEPT !.mode = "call", !.arg = extract_see_reference(CurrentLine(index, m))]

\* lines 109-110
AppendPlain(index, m) ==
    [m EXCEPT !.stack = SetTop(m, [Top(m) EXCEPT !.results = Append(@, CurrentLine(index, m)),
                                                 !.i = @ + 1])]

\* line 111
ReturnResults(m) ==
    [m EXCEPT !.mode = "return_end", !.stack = Pop(m), !.ret = Top(m).results]

\* The fan-out limit of line 105 left out.
Spliced_NoLimit(line, recursed) == IF recursed # <<>> THEN recursed ELSE <<line>>

\* The fan-out limit of line 105 off by one.
Spliced_AtMostOne(line, recursed) ==
    IF recursed # <<>> /\ Len(recursed) < 2 THEN recursed
    ELSE IF recursed = <<>> THEN <<line>>
    ELSE <<>>

\* lines 105-108: what the caller adds for the redirect line after the call
Spliced(line, recursed) ==
    IF recursed # <<>> /\ Len(recursed) <= 2 THEN recursed
    ELSE IF recursed = <<>> THEN <<line>>
    ELSE <<>>

AfterRecursion(index, m) ==
    [m EXCEPT !.mode = "loop",
              !.stack = SetTop(m, [Top(m) EXCEPT
                            !.results = @ \o Spliced(CurrentLine(index, m), m.ret),
                            !.i = @ + 1])]

\* One step of the call chain.
FlStep(index, m) ==
    CASE m.mode = "call" -> EnterCall(m)
      [] m.mode = "check" -> IF InVisited(m) THEN ReturnOnCycle(m) ELSE AddVisited(m)
      [] m.mode = "loop" ->
            IF ~HasLine(index, m) THEN ReturnResults(m)
            ELSE IF IsRedirect(CurrentLine(index, m)) THEN Recurse(index, m)
            ELSE AppendPlain(index, m)
      [] m.mode \in Returns -> AfterRecursion(index, m)

\* The chain run to the return of its outermost invocation.
RECURSIVE RunCall(_, _)
RunCall(index, m) == IF Returned(m) THEN m ELSE RunCall(index, FlStep(index, m))

find_lines_in_index(index, search_word) == RunCall(index, StartCall(search_word)).ret

-----------------------------------------------------------------------------
(* Inputs: dictionary lines of the format "HEADWORD {..} :: TRANSLATION".  *)

\* "h {} :: t"
PlainLine(h, t) == h \o <<" ","{","}"," ",":",":"," ">> \o t

\* "h {} :: SEE: t ::"
SeeLine(h, t) ==
    h \o <<" ","{","}"," ",":",":"," ","S","E","E",":"," ">> \o t \o <<" ",":",":">>

\* All sequences over S of length at most n.
SeqsUpTo(S, n) == UNION {[1..k -> S] : k \in 0..n}

MaxResolveLines == 4

\* Redirects a -> b (written "B"), a -> a and b -> a, and plain entries.
ResolvePool ==
    { SeeLine(<<"a">>, <<"B">>), SeeLine(<<"a">>, <<"a">>), SeeLine(<<"b">>, <<"a">>),
      PlainLine(<<"b">>, <<"x">>), PlainLine(<<"b">>, <<"y">>),
      PlainLine(<<"a">>, <<"w">>) }

ResolveWords == { <<"a">>, <<"B">> }

Idle == [mode |-> "idle", arg |-> <<>>, stack |-> <<>>, visited |-> {}, ret |-> <<>>]

-----------------------------------------------------------------------------
(* SpecResolve: one call find_lines_in_index(en_fr_index, word), stepwise. *)

InitResolve ==
    /\ EN_FR_LINES \in SeqsUpTo(ResolvePool, MaxResolveLines)
    /\ FR_EN_LINES = <<>>
    /\ en_fr_index = build_index(EN_FR_LINES)
    /\ fr_en_index = build_index(FR_EN_LINES)
    /\ word \in ResolveWords
    /\ cleaned_word = <<>>
    /\ input_lang = "EN"
    /\ results = <<>>
    /\ reverse_results = None
    /\ translations = <<>>
    /\ raised = "none"
    /\ pc = "resolve"
    /\ fl = StartCall(word)
    /\ fl_steps = 0
    /\ norm_in = <<>>
    /\ norm_out = <<>>
    /\ norm_twice = <<>>

Advance ==
    /\ fl' = FlStep(en_fr_index, fl)
    /\ fl_steps' = fl_steps + 1
    /\ UNCHANGED <<EN_FR_LINES, FR_EN_LINES, en_fr_index, fr_en_index, word,
                   cleaned_word, input_lang, results, reverse_results,
                   translations, raised, pc, norm_in, norm_out, norm_twice>>

Resolving == pc = "resolve" /\ ~Returned(fl)

Enter == Resolving /\ fl.mode = "call" /\ Advance

CycleReturn == Resolving /\ fl.mode = "check" /\ InVisited(fl) /\ Advance

MarkVisited == Resolving /\ fl.mode = "check" /\ ~InVisited(fl) /\ Advance

LoopPlain ==
    /\ Resolving /\ fl.mode = "loop" /\ HasLine(en_fr_index, fl)
    /\ ~IsRedirect(CurrentLine(en_fr_index, fl))
    /\ Advance

LoopRedirect ==
    /\ Resolving /\ fl.mode = "loop" /\ HasLine(en_fr_index, fl)
    /\ IsRedirect(CurrentLine(en_fr_index, fl))
    /\ Advance

LoopEnd == Resolving /\ fl.mode = "loop" /\ ~HasLine(en_fr_index, fl) /\ Advance

ReturnSplice ==
    Resolving /\ fl.mode \in Returns /\ Len(fl.ret) \in {1, 2} /\ Advance

ReturnKeep == Resolving /\ fl.mode \in Returns /\ fl.ret = <<>> /\ Advance

ReturnDrop == Resolving /\ fl.mode \in Returns /\ Len(fl.ret) > 2 /\ Advance

NextResolve ==
    \/ Enter
    \/ CycleReturn
    \/ MarkVisited
    \/ LoopPlain
    \/ LoopRedirect
    \/ LoopEnd
    \/ ReturnSplice
    \/ ReturnKeep
    \/ ReturnDrop

SpecResolve == InitResolve /\ [][NextResolve]_vars

-----------------------------------------------------------------------------
(* Claims about find_lines_in_index (checked under SpecResolve).           *)

Range(seq) == {seq[i] : i \in 1..Len(seq)}

\* The invocations that have passed the cycle check of lines 97-98.
Expanding(m) == IF m.mode = "check" THEN Pop(m) ELSE m.stack

\* The headword a redirect line sends the lookup to.
TargetKey(line) == Lower(extract_see_reference(line))

\* A bucket of 1 or 2 entries, none of them a redirect.
SmallPlainBucket(index, key) ==
    /\ Len(BucketOf(index, key)) \in {1, 2}
    /\ \A i \in 1..Len(BucketOf(index, key)) : ~IsRedirect(BucketOf(index, key)[i])

\* Every invocation costs at most 3 steps of its own (entry, cycle check,
\* return) and every line at most 2 (the call and the splice of a redirect),
\* and no bucket is expanded twice.
StepBound == 3 + 5 * Len(EN_FR_LINES)

\* The depth of the recursion: the invocations nested inside the outermost.
RecursionDepth == IF fl.stack = <<>> THEN 0 ELSE Len(fl.stack) - 1

\* C1: whatever the index (redirect cycles and self-redirects included) and
\* the headword, the call ends, within a number of steps bounded by the size
\* of the file: a call that has not returned can take a step, and never has
\* taken more than StepBound; it returns a sequence of lines of the file.
\* Meanwhile the depth of the recursion never exceeds the number of headwords
\* in visited, and the invocations that passed the cycle check have pairwise
\* distinct keys, all of them in visited.
C1_Terminates ==
    /\ fl_steps <= StepBound
    /\ ~Returned(fl) =>
          \/ fl.mode = "call"
          \/ fl.mode \in {"check", "loop"} \cup Returns /\ fl.stack # <<>>
    /\ RecursionDepth <= Cardinality(fl.visited)
    /\ Len(Expanding(fl)) <= Cardinality(fl.visited)
    /\ \A i \in 1..Len(Expanding(fl)) :
          /\ fl.stack[i].key \in fl.visited
          /\ \A j \in 1..Len(Expanding(fl)) : fl.stack[i].key = fl.stack[j].key => i = j
    /\ Returned(fl) => Range(fl.ret) \subseteq Range(EN_FR_LINES)

\* The call a -> SEE: B, b -> SEE: a has returned, having visited both.
C1_Witness ==
    /\ Returned(fl)
    /\ word = <<"a">>
    /\ SeeLine(<<"a">>, <<"B">>) \in Range(EN_FR_LINES)
    /\ SeeLine(<<"b">>, <<"a">>) \in Range(EN_FR_LINES)
    /\ fl.visited = { <<"a">>, <<"b">> }

\* C2: a redirect line whose recursive resolution returned 1 or 2 lines is
\* replaced by exactly those lines, one that returned no line is kept as it
\* is, one that returned more than 2 lines adds nothing; a line without a
\* redirect is added unchanged; the loop takes the bucket's lines in order,
\* adds nothing while a redirect is being resolved, and returns what it
\* accumulated.
C2_Step ==
    /\ (fl.mode \in Returns /\ fl.stack # <<>>) =>
          /\ Top(fl').i = Top(fl).i + 1
          /\ Top(fl').key = Top(fl).key
          /\ Len(fl.ret) \in {1, 2} => Top(fl').results = Top(fl).results \o fl.ret
          /\ Len(fl.ret) = 0 =>
                Top(fl').results = Append(Top(fl).results, CurrentLine(en_fr_index, fl))
          /\ Len(fl.ret) > 2 => Top(fl').results = Top(fl).results
    /\ (fl.mode = "loop" /\ HasLine(en_fr_index, fl)) =>
          IF IsRedirect(CurrentLine(en_fr_index, fl))
          THEN /\ fl'.stack = fl.stack
               /\ fl'.mode = "call"
               /\ fl'.arg = extract_see_reference(CurrentLine(en_fr_index, fl))
          ELSE /\ Top(fl').i = Top(fl).i + 1
               /\ Top(fl').results = Append(Top(fl).results, CurrentLine(en_fr_index, fl))
    /\ (fl.mode = "loop" /\ ~HasLine(en_fr_index, fl)) =>
          /\ fl'.ret = Top(fl).results
          /\ fl'.stack = Pop(fl)
    /\ fl.mode = "check" => Top(fl').results = <<>> \/ fl'.ret = <<>>

C2_SpliceRule == [][C2_Step]_vars

\* The redirect of "a" was replaced by the two entries of "b", in order.
C2_Witness ==
    /\ EN_FR_LINES # <<>>
    /\ EN_FR_LINES[1] = SeeLine(<<"a">>, <<"B">>)
    /\ fl.mode = "loop"
    /\ Len(fl.stack) = 1
    /\ Top(fl).key = <<"a">>
    /\ Top(fl).i = 2
    /\ Top(fl).results = << PlainLine(<<"b">>, <<"x">>), PlainLine(<<"b">>, <<"y">>) >>

\* C3 as stated: when the lookup of a headword has returned, no redirect
\* entry of its bucket whose target bucket holds 1 or 2 plain entries is in
\* the result, and the target's entries are.
C3_Original ==
    Returned(fl) =>
        \A line \in Range(BucketOf(en_fr_index, Lower(word))) :
            (IsRedirect(line) /\ SmallPlainBucket(en_fr_index, TargetKey(line))) =>
                /\ line \notin Range(fl.ret)
                /\ Range(BucketOf(en_fr_index, TargetKey(line))) \subseteq Range(fl.ret)

\* C3, amended: when the resolution of a redirect entry comes back to the
\* entry's bucket and the target's bucket holds 1 or 2 plain entries, then
\* either the target had not been visited before (the call returned at line
\* 111) and exactly the target's entries are added in place of the entry, or
\* the target had already been visited in this resolution (the call returned
\* at line 98) and the raw SEE line is added.
C3_Step ==
    (/\ fl.mode \in Returns
     /\ fl.stack # <<>>
     /\ SmallPlainBucket(en_fr_index, TargetKey(CurrentLine(en_fr_index, fl)))) =>
        IF fl.mode = "return_end"
        THEN Top(fl').results =
                Top(fl).results
                    \o BucketOf(en_fr_index, TargetKey(CurrentLine(en_fr_index, fl)))
        ELSE Top(fl').results = Append(Top(fl).results, CurrentLine(en_fr_index, fl))

\* A call returns at line 98 exactly when its key is already in visited.
C3_CycleReturn ==
    fl.mode = "check" => (fl'.mode = "return_cycle" <=> Top(fl).key \in fl.visited)

C3_FirstRedirectSpliced == [][C3_Step /\ C3_CycleReturn]_vars

\* Two entries of "a" redirect to "b": the first became the entry of "b",
\* the second came back as the raw SEE line.
C3_Witness ==
    /\ Returned(fl)
    /\ EN_FR_LINES = << SeeLine(<<"a">>, <<"B">>), SeeLine(<<"a">>, <<"B">>),
                        PlainLine(<<"b">>, <<"x">>) >>
    /\ fl.ret = << PlainLine(<<"b">>, <<"x">>), SeeLine(<<"a">>, <<"B">>) >>

-----------------------------------------------------------------------------
(* translate_word_api: one request, from clean_input to the response.      *)

EN_FR_LABEL == <<"E","N"," ","-",">"," ","F","R",":">>

FR_EN_LABEL == <<"F","R"," ","-",">"," ","E","N",":">>

\* f"EN -> FR: {line}" and f"FR -> EN: {line}"
Labelled(label, line) == label \o <<" ">> \o line

\* The one string returned when nothing was found (line 203).
NOT_FOUND == <<"Translation not found.">>

\* The guess with the other default.
GuessLang_DefaultFr(w, en_index, fr_index) ==
    IF w \in DOMAIN en_index THEN "EN" ELSE "FR"

\* line 137
GuessLang(w, en_index, fr_index) ==
    IF w \in DOMAIN en_index THEN "EN"
    ELSE IF w \in DOMAIN fr_index THEN "FR"
    ELSE "EN"

\* lines 143-145 and 149-151: the lines that pass the filter, labelled
RECURSIVE LabelMatches(_, _)
LabelMatches(label, matches) ==
    IF matches = <<>> THEN <<>>
    ELSE IF translation_has_letters(Head(matches))
         THEN <<Labelled(label, Head(matches))>> \o LabelMatches(label, Tail(matches))
         ELSE LabelMatches(label, Tail(matches))

\* lines 156-160 and 164-168: the labelled lines not yet in results
RECURSIVE AppendNew(_, _)
AppendNew(res, labelled) ==
    IF labelled = <<>> THEN res
    ELSE IF Head(labelled) \in Range(res)
         THEN AppendNew(res, Tail(labelled))
         ELSE AppendNew(Append(res, Head(labelled)), Tail(labelled))

\* lines 154-160 and 162-168: the loop over the lemmas, in the order the set
\* yields them
RECURSIVE LemmaLoop(_, _, _, _)
LemmaLoop(res, index, label, lemmas) ==
    IF lemmas = <<>> THEN res
    ELSE LemmaLoop(AppendNew(res, LabelMatches(label, find_lines_in_index(index, Head(lemmas)))),
                   index, label, Tail(lemmas))

\* The orders in which iterating over a set may yield its elements.
Orders(S) ==
    {seq \in [1..Cardinality(S) -> S] :
        \A i, j \in 1..Cardinality(S) : seq[i] = seq[j] => i = j}

\* lines 178-180: the two sides of the first "::" swapped
Swapped(line) == Strip(AfterColon(line)) \o <<" ",":",":"," ">> \o Strip(BeforeColon(line))

\* lines 175-180 and 182-187
RECURSIVE ReverseMatches(_, _)
ReverseMatches(rev_label, matches) ==
    IF matches = <<>> THEN <<>>
    ELSE IF translation_has_letters(Head(matches))
         THEN <<Labelled(rev_label, Swapped(Head(matches)))>>
              \o ReverseMatches(rev_label, Tail(matches))
         ELSE ReverseMatches(rev_label, Tail(matches))

\* line 173
RevLabel(lang) == IF lang = "EN" THEN EN_FR_LABEL ELSE FR_EN_LABEL

-----------------------------------------------------------------------------
(* Inputs of a request.                                                    *)

\* "h {} :: t/p/": a translation followed by a phonetic annotation
PhoneticLine(h, t) == PlainLine(h, t) \o <<"/","p","/">>

\* "h {}": an indexed line without "::"
BareLine(h) == h \o <<" ","{","}">>

\* "h :: t": a line without "{", kept in the raw lines only
RawOnlyLine(h, t) == h \o <<" ",":",":"," ">> \o t

EnPool ==
    { PlainLine(<<"a">>, <<"x">>), PhoneticLine(<<"a">>, <<"x">>),
      PlainLine(<<"a">>, <<"1">>), BareLine(<<"a">>),
      SeeLine(<<"a">>, <<"b">>), RawOnlyLine(<<"c">>, <<"X">>) }

FrPool ==
    { PlainLine(<<"x">>, <<"2">>), PlainLine(<<"b">>, <<"x">>),
      PlainLine(<<"a">>, <<"x">>) }

\* The two files hold at most MaxLines lines together.
MaxLines == 3

Dictionaries ==
    {d \in SeqsUpTo(EnPool, MaxLines) \X SeqsUpTo(FrPool, MaxLines) :
        Len(d[1]) + Len(d[2]) <= MaxLines}

RequestWords == { <<"a">>, <<"x">>, <<"T","o"," ","A">>, <<"l","e","s"," ","b">> }

\* What a lemmatizer may answer for a word besides the word itself.
LemmaForms == { <<"a">>, <<"b">> }

-----------------------------------------------------------------------------
(* Spec: the request handler, one phase per action.                        *)

Init ==
    /\ \E d \in Dictionaries : EN_FR_LINES = d[1] /\ FR_EN_LINES = d[2]
    /\ en_fr_index = build_index(EN_FR_LINES)
    /\ fr_en_index = build_index(FR_EN_LINES)
    /\ word \in RequestWords
    /\ cleaned_word = <<>>
    /\ input_lang = "EN"
    /\ results = <<>>
    /\ reverse_results = None
    /\ translations = <<>>
    /\ raised = "none"
    /\ pc = "clean"
    /\ fl = Idle
    /\ fl_steps = 0
    /\ norm_in = <<>>
    /\ norm_out = <<>>
    /\ norm_twice = <<>>

Loaded == <<EN_FR_LINES, FR_EN_LINES, en_fr_index, fr_en_index, word>>

Unused == <<fl, fl_steps, norm_in, norm_out, norm_twice>>

\* lines 134-139
CleanAndGuess ==
    /\ pc = "clean"
    /\ cleaned_word' = clean_input(word)
    /\ input_lang' = GuessLang(cleaned_word', en_fr_index, fr_en_index)
    /\ results' = <<>>
    /\ pc' = "direct_en"
    /\ UNCHANGED <<Loaded, Unused, reverse_results, translations, raised>>

\* lines 142-145
DirectEn ==
    /\ pc = "direct_en"
    /\ results' = results
                    \o LabelMatches(EN_FR_LABEL, find_lines_in_index(en_fr_index, cleaned_word))
    /\ pc' = "direct_fr"
    /\ UNCHANGED <<Loaded, Unused, cleaned_word, input_lang, reverse_results,
                   translations, raised>>

\* lines 148-151
DirectFr ==
    /\ pc = "direct_fr"
    /\ results' = results
                    \o LabelMatches(FR_EN_LABEL, find_lines_in_index(fr_en_index, cleaned_word))
    /\ pc' = "lemma_en"
    /\ UNCHANGED <<Loaded, Unused, cleaned_word, input_lang, reverse_results,
                   translations, raised>>

\* lines 154-160, lemmatize_word_english answering {word, noun_lemma, verb_lemma}
LemmaEn ==
    /\ pc = "lemma_en"
    /\ \E noun_lemma, verb_lemma \in LemmaForms \cup {cleaned_word} :
        \E lemmas \in Orders({cleaned_word, noun_lemma, verb_lemma}) :
            results' = LemmaLoop(results, en_fr_index, EN_FR_LABEL, lemmas)
    /\ pc' = "lemma_fr"
    /\ UNCHANGED <<Loaded, Unused, cleaned_word, input_lang, reverse_results,
                   translations, raised>>

\* line 154 when the WordNet lemmatizer raises: nothing catches it
LemmaEnRaises ==
    /\ pc = "lemma_en"
    /\ raised' = "en"
    /\ pc' = "failed"
    /\ UNCHANGED <<Loaded, Unused, cleaned_word, input_lang, results,
                   reverse_results, translations>>

\* lines 162-168, lemmatize_word_french answering {word, lemma}
LemmaFr ==
    /\ pc = "lemma_fr"
    /\ \E lemma \in (IF cleaned_word = <<>> THEN {} ELSE LemmaForms) \cup {cleaned_word} :
        \E lemmas \in Orders({cleaned_word, lemma}) :
            results' = LemmaLoop(results, fr_en_index, FR_EN_LABEL, lemmas)
    /\ pc' = "reverse"
    /\ UNCHANGED <<Loaded, Unused, cleaned_word, input_lang, reverse_results,
                   translations, raised>>

\* line 162 when the SpaCy model raises: nothing catches it
LemmaFrRaises ==
    /\ pc = "lemma_fr"
    /\ raised' = "fr"
    /\ pc' = "failed"
    /\ UNCHANGED <<Loaded, Unused, cleaned_word, input_lang, results,
                   reverse_results, translations>>

\* lines 171-189, with results empty
ReverseSearch ==
    /\ pc = "reverse"
    /\ results = <<>>
    /\ reverse_results' =
          ReverseMatches(RevLabel(input_lang),
                         find_lines_after_colon_from_lines(EN_FR_LINES, cleaned_word))
          \o ReverseMatches(RevLabel(input_lang),
                            find_lines_after_colon_from_lines(FR_EN_LINES, cleaned_word))
    /\ results' = results \o reverse_results'
    /\ pc' = "dedup"
    /\ UNCHANGED <<Loaded, Unused, cleaned_word, input_lang, translations, raised>>

\* line 171, with results not empty
SkipReverse ==
    /\ pc = "reverse"
    /\ results # <<>>
    /\ pc' = "dedup"
    /\ UNCHANGED <<Loaded, Unused, cleaned_word, input_lang, results,
                   reverse_results, translations, raised>>

\* lines 192-204
Respond ==
    /\ pc = "dedup"
    /\ translations' = IF Normalize(results) # <<>> THEN Normalize(results)
                       ELSE <<NOT_FOUND>>
    /\ pc' = "done"
    /\ UNCHANGED <<Loaded, Unused, cleaned_word, input_lang, results,
                   reverse_results, raised>>

Next ==
    \/ CleanAndGuess
    \/ DirectEn
    \/ DirectFr
    \/ LemmaEn
    \/ LemmaEnRaises
    \/ LemmaFr
    \/ LemmaFrRaises
    \/ ReverseSearch
    \/ SkipReverse
    \/ Respond

Spec == Init /\ [][Next]_vars

-----------------------------------------------------------------------------
(* SpecClean: clean_input applied to words made of the prefixes it tests.  *)

RECURSIVE Concat(_)
Concat(parts) == IF parts = <<>> THEN <<>> ELSE Head(parts) \o Concat(Tail(parts))

MaxWordTokens == 3

CleanTokens ==
    { <<"t","o"," ">>, <<"l","e"," ">>, <<"l","a"," ">>, <<"l","e","s"," ">>,
      <<"l","'">>, <<"L","a"," ">>, <<"x">>, <<" ">> }

CleanWords == {Concat(ts) : ts \in SeqsUpTo(CleanTokens, MaxWordTokens)}

InitClean ==
    /\ EN_FR_LINES = <<>>
    /\ FR_EN_LINES = <<>>
    /\ en_fr_index = build_index(EN_FR_LINES)
    /\ fr_en_index = build_index(FR_EN_LINES)
    /\ word \in CleanWords
    /\ cleaned_word = <<>>
    /\ input_lang = "EN"
    /\ results = <<>>
    /\ reverse_results = None
    /\ translations = <<>>
    /\ raised = "none"
    /\ pc = "clean_input"
    /\ fl = Idle
    /\ fl_steps = 0
    /\ norm_in = <<>>
    /\ norm_out = <<>>
    /\ norm_twice = <<>>

\* line 134
CleanInput ==
    /\ pc = "clean_input"
    /\ cleaned_word' = clean_input(word)
    /\ pc' = "cleaned"
    /\ UNCHANGED <<Loaded, Unused, input_lang, results, reverse_results,
                   translations, raised>>

NextClean == CleanInput

SpecClean == InitClean /\ [][NextClean]_vars

-----------------------------------------------------------------------------
(* SpecNorm: the clean-and-dedup loop applied to a list, then to its own   *)
(* output.                                                                 *)

MaxNormTokens == 3

MaxNormSeq == 2

\* "w {} ::", " /p/", " t", "/" and "}"
NormTokens ==
    { <<"w"," ","{","}"," ",":",":">>, <<" ","/","p","/">>, <<" ","t">>,
      <<"/">>, <<"}">> }

NormStrings == {Concat(ts) : ts \in SeqsUpTo(NormTokens, MaxNormTokens)}

InitNorm ==
    /\ EN_FR_LINES = <<>>
    /\ FR_EN_LINES = <<>>
    /\ en_fr_index = build_index(EN_FR_LINES)
    /\ fr_en_index = build_index(FR_EN_LINES)
    /\ word = <<>>
    /\ cleaned_word = <<>>
    /\ input_lang = "EN"
    /\ results = <<>>
    /\ reverse_results = None
    /\ translations = <<>>
    /\ raised = "none"
    /\ pc = "normalize"
    /\ fl = Idle
    /\ fl_steps = 0
    /\ norm_in \in SeqsUpTo(NormStrings, MaxNormSeq)
    /\ norm_out = <<>>
    /\ norm_twice = <<>>

Request == <<cleaned_word, input_lang, results, reverse_results, translations, raised>>

\* lines 192-198 on norm_in
NormalizeOnce ==
    /\ pc = "normalize"
    /\ norm_out' = Normalize(norm_in)
    /\ pc' = "normalized"
    /\ UNCHANGED <<Loaded, Request, fl, fl_steps, norm_in, norm_twice>>

\* lines 192-198 on their own output
NormalizeAgain ==
    /\ pc = "normalized"
    /\ norm_twice' = Normalize(norm_out)
    /\ pc' = "renormalized"
    /\ UNCHANGED <<Loaded, Request, fl, fl_steps, norm_in, norm_out>>

NextNorm ==
    \/ NormalizeOnce
    \/ NormalizeAgain

SpecNorm == InitNorm /\ [][NextNorm]_vars

-----------------------------------------------------------------------------
(* Claims about clean_input and the clean-and-dedup loop.                  *)

\* The word with the first article it starts with, if any, removed.
WithoutFirstArticle(w) ==
    LET ks == {k \in 1..Len(FRENCH_ARTICLES) : StartsWith(w, FRENCH_ARTICLES[k])}
    IN  IF ks = {} THEN w ELSE Drop(w, Len(FRENCH_ARTICLES[SetMin(ks)]))

\* C5: clean_input lowercases and trims, strips one leading "to ", then
\* strips at most one leading article, the first of "le ", "la ", "les ",
\* "l'" the word starts with; what follows the stripped article stays.
C5_OneArticleStripped ==
    pc = "cleaned" =>
        cleaned_word =
            WithoutFirstArticle(
                IF StartsWith(Lower(Strip(word)), TO_PREFIX)
                THEN Drop(Lower(Strip(word)), Len(TO_PREFIX))
                ELSE Lower(Strip(word)))

\* C4: the clean-and-dedup step applied to its own output changes nothing.
C4_Idempotent == pc = "renormalized" => norm_twice = norm_out

\* C10: a result "w {} :: /p/ t" is normalized to "w {} :: t", the
\* annotation gone and one space left between "::" and the translation.
C10_PhoneticsLeaveOneSpace ==
    pc = "normalized" =>
        \A i \in 1..Len(norm_in) :
            norm_in[i] = <<"w"," ","{","}"," ",":",":"," ","/","p","/"," ","t">> =>
                <<"w"," ","{","}"," ",":",":"," ","t">> \in Range(norm_out)

-----------------------------------------------------------------------------
(* Claims about a request (checked under Spec).                            *)

\* C6: a lemmatizer that raises does not make the request fail.
C6_LemmatizerFailureContained == raised # "none" => pc # "failed"

\* The line has text after its first "::", with a letter in it.
HasLetterAfterColon(line) ==
    /\ Contains(line, ColonColon)
    /\ \E i \in 1..Len(AfterColon(line)) : IsLetter(AfterColon(line)[i])

\* The raw line holds the cleaned word after its first "::", whatever the case.
ReverseHit(line) ==
    /\ HasLetterAfterColon(line)
    /\ Contains(Lower(AfterColon(line)), Lower(cleaned_word))

\* The one label of a request's reverse results.
GuessedLabel ==
    IF cleaned_word \in DOMAIN en_fr_index THEN EN_FR_LABEL
    ELSE IF cleaned_word \in DOMAIN fr_en_index THEN FR_EN_LABEL
    ELSE EN_FR_LABEL

\* A reverse result: the label, then the text after the first "::", " :: ",
\* and the text before it.
ReverseForm(line) ==
    GuessedLabel \o <<" ">> \o Strip(AfterColon(line)) \o <<" ",":",":"," ">>
        \o Strip(BeforeColon(line))

\* C7: the reverse search runs exactly when the direct and the lemma lookups
\* left results empty, and otherwise adds nothing; when it runs, its results
\* are the hits of both raw files, each with its two sides swapped and each
\* under the one label of the language guess.
C7_Step ==
    pc = "reverse" =>
        IF results # <<>>
        THEN results' = results /\ reverse_results' = None
        ELSE /\ reverse_results' # None
             /\ results' = reverse_results'
             /\ Range(results') =
                    {ReverseForm(line) :
                        line \in {l \in Range(EN_FR_LINES) \cup Range(FR_EN_LINES) :
                                    ReverseHit(l)}}

C7_ReverseFallback == [][C7_Step]_vars

\* "x" is a key of the FR->EN index only and nothing was found directly: the
\* hit of the EN->FR file and the hit of the FR->EN file are both labelled
\* "FR -> EN:".
C7_Witness ==
    /\ pc = "dedup"
    /\ input_lang = "FR"
    /\ EN_FR_LINES = << PlainLine(<<"a">>, <<"x">>) >>
    /\ FR_EN_LINES = << PlainLine(<<"x">>, <<"2">>), PlainLine(<<"b">>, <<"x">>) >>
    /\ reverse_results =
          << Labelled(FR_EN_LABEL, RawOnlyLine(<<"x">>, BareLine(<<"a">>))),
             Labelled(FR_EN_LABEL, RawOnlyLine(<<"x">>, BareLine(<<"b">>))) >>

\* The text of a result after its label.
Unlabelled(res) == Drop(res, Len(EN_FR_LABEL) + 1)

HasLabel(res, label) == StartsWith(res, label \o <<" ">>)

\* The place of the first occurrence of x in seq.
FirstIndex(seq, x) == SetMin({i \in 1..Len(seq) : seq[i] = x})

\* results grew by elements that all carry the label.
GrewBy(label) ==
    /\ Len(results) <= Len(results')
    /\ SubSeq(results', 1, Len(results)) = results
    /\ \A i \in (Len(results) + 1)..Len(results') : HasLabel(results'[i], label)

\* The response lists each cleaned result once, in the order of its first
\* occurrence in results, or the one string that says nothing was found.
C8_Distinct ==
    pc = "done" =>
        LET cleaned == [i \in 1..Len(results) |-> CleanResult(results[i])]
        IN  /\ \A i, j \in 1..Len(translations) :
                  translations[i] = translations[j] => i = j
            /\ IF results = <<>> THEN translations = <<NOT_FOUND>>
               ELSE /\ Range(translations) = Range(cleaned)
                    /\ \A i, j \in 1..Len(translations) :
                          i < j => FirstIndex(cleaned, translations[i])
                                       < FirstIndex(cleaned, translations[j])

\* results is collected in the order EN->FR direct, FR->EN direct, English
\* lemmas, French lemmas, and the reverse search only adds to an empty list.
C8_Order ==
    /\ pc = "direct_en" => results = <<>> /\ GrewBy(EN_FR_LABEL)
    /\ pc = "direct_fr" => GrewBy(FR_EN_LABEL)
    /\ (pc = "lemma_en" /\ pc' # "failed") => GrewBy(EN_FR_LABEL)
    /\ (pc = "lemma_fr" /\ pc' # "failed") => GrewBy(FR_EN_LABEL)
    /\ (pc = "reverse" /\ results # <<>>) => results' = results
    /\ pc = "dedup" => results' = results

\* C8: the translations of a response are pairwise different and stand in
\* the order of their first occurrence in the collected results, which are
\* the EN->FR direct, the FR->EN direct, the English-lemma and the
\* French-lemma results in that order, or else the reverse results.
C8_DistinctInOrder == []C8_Distinct /\ [][C8_Order]_vars

\* "a {} :: x" and "a {} :: x/p/" are equal once cleaned: three results,
\* two translations, the EN->FR one first.
C8_Witness ==
    /\ pc = "done"
    /\ Len(results) = 3
    /\ translations = << Labelled(EN_FR_LABEL, PlainLine(<<"a">>, <<"x">>)),
                         Labelled(FR_EN_LABEL, PlainLine(<<"a">>, <<"x">>)) >>

\* C9: every line taken into the results by the direct or the lemma lookups
\* has a letter in the text after its first "::" (a line without "::" has no
\* such text), and every reverse result comes from such a line.
C9_OnlyLinesWithLetters ==
    IF reverse_results = None
    THEN \A i \in 1..Len(results) : HasLetterAfterColon(Unlabelled(results[i]))
    ELSE \A i \in 1..Len(results) :
            \E line \in Range(EN_FR_LINES) \cup Range(FR_EN_LINES) :
                HasLetterAfterColon(line) /\ results[i] = ReverseForm(line)

====
